---- MODULE Spec2Model ----
(***************************************************************************)
(* Training loops of the feedforward-network notebooks (binary.ipynb, the  *)
(* MXNet autodiff notebook and the Gluon notebook) as one state machine.   *)
(* Every notebook cell is a self-contained sequential program; Init picks  *)
(* the cell that runs and, for the cells that draw their initial weights,  *)
(* the draw.  Real numbers are fixed-point integers with Scale units per   *)
(* 1.0; inputs x and labels y are the plain integers 0 and 1.              *)
(***************************************************************************)
EXTENDS Integers, Sequences, FiniteSets

VARIABLES cell, pc, t, i, x, y, w, grad, y_pred, hid, loss, loss0

vars == <<cell, pc, t, i, x, y, w, grad, y_pred, hid, loss, loss0>>

----------------------------------------------------------------------------
(* Fixed-point arithmetic standing for the notebooks' floating point.      *)

Scale == 10000

ExpTerms == 10

LogTerms == 8

ExpCut == 12

Abs(a) == IF a < 0 THEN -a ELSE a

Sgn(a) == IF a > 0 THEN 1 ELSE IF a < 0 THEN -1 ELSE 0

\* a / b for b > 0, rounded to nearest.
RDiv(a, b) == Sgn(a) * ((2 * Abs(a) + b) \div (2 * b))

\* Product of two fixed-point numbers, rounded to nearest; the larger factor
\* is split into its whole and fractional part to keep the intermediate
\* products within the integers.
Mul(a, b) ==
    LET hi == IF Abs(a) >= Abs(b) THEN Abs(a) ELSE Abs(b)
        lo == IF Abs(a) >= Abs(b) THEN Abs(b) ELSE Abs(a)
    IN  Sgn(a) * Sgn(b)
          * ((hi \div Scale) * lo + ((hi % Scale) * lo + Scale \div 2) \div Scale)

\* exp(-r) for 0 <= r <= 1 by its power series, in Horner form from term k.
RECURSIVE ExpSeries(_, _)
ExpSeries(r, k) ==
    IF k > ExpTerms THEN Scale
    ELSE Scale - RDiv(r * ExpSeries(r, k + 1), k * Scale)

\* exp(-v) for v >= 0.
RECURSIVE ExpNeg(_)
ExpNeg(v) ==
    IF v >= ExpCut * Scale THEN 0
    ELSE IF v < Scale THEN ExpSeries(v, 1)
    ELSE Mul(ExpNeg(v - Scale), ExpSeries(Scale, 1))

\* exp(r) for 0 <= r <= 1 by its power series, in Horner form from term k.
RECURSIVE ExpPosSeries(_, _)
ExpPosSeries(r, k) ==
    IF k > ExpTerms THEN Scale
    ELSE Scale + RDiv(r * ExpPosSeries(r, k + 1), k * Scale)

\* exp(v) for v >= 0.
RECURSIVE ExpPos(_)
ExpPos(v) ==
    IF v <= Scale THEN ExpPosSeries(v, 1)
    ELSE Mul(ExpPos(v - Scale), ExpPosSeries(Scale, 1))

\* exp(a) for any a.
Exp(a) == IF a <= 0 THEN ExpNeg(-a) ELSE ExpPos(a)

\* sigmoid(v) = 1 / (1 + exp(-v)).
Sigmoid(v) ==
    IF v >= 0 THEN RDiv(Scale * Scale, Scale + ExpNeg(v))
    ELSE RDiv(Scale * ExpNeg(-v), Scale + ExpNeg(-v))

\* Sum over k of z^(2k+1) / (2k+1), zp = z^(2k+1), z2 = z^2.
RECURSIVE AtanhSeries(_, _, _)
AtanhSeries(zp, z2, k) ==
    IF k >= LogTerms THEN 0
    ELSE RDiv(zp, 2 * k + 1) + AtanhSeries(Mul(zp, z2), z2, k + 1)

\* -log(p) for 1/2 < p <= 1: 2 * atanh((1 - p) / (1 + p)).
LogSeries(p) ==
    LET z == RDiv((Scale - p) * Scale, Scale + p)
    IN  2 * AtanhSeries(z, Mul(z, z), 0)

\* -log(p) for 0 < p <= 1; log(0) is -inf, which the largest finite loss
\* of the grid plus one stands for.
RECURSIVE NegLog(_)
NegLog(p) ==
    IF p <= 0 THEN 15 * Scale
    ELSE IF 2 * p <= Scale THEN NegLog(2 * p) + LogSeries(Scale \div 2)
    ELSE LogSeries(p)

\* Rounding a prediction at threshold 0.5.
Round(p) == IF 2 * p > Scale THEN 1 ELSE 0

RoundAll(ps) == [n \in 1..Len(ps) |-> Round(ps[n])]

----------------------------------------------------------------------------
(* Training data.                                                          *)

\* The four inputs with the constant-1 bias column.
X3 == << <<0, 0, 1>>, <<0, 1, 1>>, <<1, 0, 1>>, <<1, 1, 1>> >>

\* The four inputs of the cells whose layer has its own bias.
X2 == << <<0, 0>>, <<0, 1>>, <<1, 0>>, <<1, 1>> >>

\* Labels of the truth tables.
NandY == <<1, 1, 1, 0>>

\* The OR column of the truth table, a linearly separable label vector.
OrY == <<0, 1, 1, 1>>

XorY == <<0, 1, 1, 0>>

\* Labels as written in the per-sample perceptron cell.
PerceptronY == <<0, 0, 0, 1>>

Dot3(u, v) == u[1] * v[1] + u[2] * v[2] + u[3] * v[3]

\* A variant of the step function with g(0) = 1.
HeavisideOne(v, h0) == IF v < 0 THEN 0 ELSE 1

\* A variant of the step function with its threshold at 0.5.
HeavisideAboveHalf(v, h0) == IF v > Scale \div 2 THEN 1 ELSE 0

\* np.heaviside(v, h0): 0 below zero, h0 at zero, 1 above.
Heaviside(v, h0) == IF v < 0 THEN 0 ELSE IF v = 0 THEN h0 ELSE 1

\* np.heaviside(np.dot(x, w), 0) on all four rows.
StepPredictions(xs, v) == [n \in 1..4 |-> Heaviside(Dot3(xs[n], v), 0)]

----------------------------------------------------------------------------
(* Hyperparameters, fixed literals of the cells.                           *)

\* A variant of the learning rate: 1.0.
UnitEta == Scale

\* A variant of the learning rate: 0.25.
QuarterEta == Scale \div 4

\* eta = 0.5.
Eta == Scale \div 2

\* for t in range(100): the single-layer cells.
SingleIters == 100

\* for t in range(1000): the two-layer cells.
MultiIters == 1000

\* The empty value of a variable the running cell does not have.
None == <<>>

----------------------------------------------------------------------------
(* The perceptron cells.                                                   *)

\* "perceptron" is the per-sample cell as written, "perceptron_xor" the same
\* loop run on the XOR labels, "perceptron_batch" the mini-batch cell.
PerSampleCells == {"perceptron", "perceptron_xor"}

PerceptronCells == PerSampleCells \cup {"perceptron_batch"}

\* y = np.array([...]) of the cell.
PerceptronLabels(c) ==
    IF c = "perceptron" THEN PerceptronY
    ELSE IF c = "perceptron_xor" THEN XorY
    ELSE NandY

\* w = np.array([0.0, 0.0, 0.0])
ZeroW == <<0, 0, 0>>

InitPerceptron ==
    /\ cell \in PerceptronCells
    /\ pc = "loop"
    /\ t = 0
    /\ i = IF cell \in PerSampleCells THEN 1 ELSE 0
    /\ x = X3
    /\ y = PerceptronLabels(cell)
    /\ w = ZeroW
    /\ grad = None
    /\ y_pred = None
    /\ hid = None
    /\ loss = 0
    /\ loss0 = 0

\* A variant of the per-sample update that adds eta * y[i] * x[i] whatever
\* the prediction is.
SampleUpdateUnchecked(xs, v, n, lab) ==
    [k \in 1..3 |-> v[k] + lab[n] * Eta * xs[n][k]]

\* w += (y[i] - y_pred) * eta * x[i] with y_pred = heaviside(x[i] . w, 0).
SampleUpdate(xs, v, n, lab) ==
    LET yp == Heaviside(Dot3(xs[n], v), 0)
    IN  [k \in 1..3 |-> v[k] + (lab[n] - yp) * Eta * xs[n][k]]

\* A variant of the batch's sum with the difference reversed.
BatchDeltaReversed(xs, v, lab) ==
    LET yp == StepPredictions(xs, v)
    IN  [k \in 1..3 |->
            (yp[1] - lab[1]) * xs[1][k] + (yp[2] - lab[2]) * xs[2][k]
          + (yp[3] - lab[3]) * xs[3][k] + (yp[4] - lab[4]) * xs[4][k]]

\* np.dot(y - y_pred, x): the sum over the rows of (y - y_pred) * x.
BatchDelta(xs, v, lab) ==
    LET yp == StepPredictions(xs, v)
    IN  [k \in 1..3 |->
            (lab[1] - yp[1]) * xs[1][k] + (lab[2] - yp[2]) * xs[2][k]
          + (lab[3] - yp[3]) * xs[3][k] + (lab[4] - yp[4]) * xs[4][k]]

\* A variant of the batch update that takes the four rows in turn, each
\* with the weights the rows before it left.
BatchUpdateInTurn(xs, v, lab) ==
    SampleUpdate(xs,
        SampleUpdate(xs,
            SampleUpdate(xs, SampleUpdate(xs, v, 1, lab), 2, lab), 3, lab), 4, lab)

\* w += np.dot((y - y_pred), x)
BatchUpdate(xs, v, lab) ==
    LET d == BatchDelta(xs, v, lab)
    IN  [k \in 1..3 |-> v[k] + d[k] * Scale]

\* A variant of the loop position that leaves the loop as soon as the step
\* predictions equal the labels.
AfterPassConverged(n) ==
    IF t + 1 = n \/ StepPredictions(x, w) = y THEN "done" ELSE "loop"

\* The loop position after one more pass of range(n).
AfterPass(n) == IF t + 1 = n THEN "done" ELSE "loop"

\* One inner iteration of the per-sample loop.
PerSampleStep ==
    /\ cell \in PerSampleCells
    /\ pc = "loop"
    /\ w' = SampleUpdate(x, w, i, y)
    /\ IF i = Len(y)
         THEN /\ i' = 1
              /\ t' = t + 1
              /\ pc' = AfterPass(SingleIters)
         ELSE /\ i' = i + 1
              /\ UNCHANGED <<t, pc>>
    /\ UNCHANGED <<cell, x, y, grad, y_pred, hid, loss, loss0>>

\* One iteration of the mini-batch loop.
BatchStep ==
    /\ cell = "perceptron_batch"
    /\ pc = "loop"
    /\ w' = BatchUpdate(x, w, y)
    /\ t' = t + 1
    /\ pc' = AfterPass(SingleIters)
    /\ UNCHANGED <<cell, i, x, y, grad, y_pred, hid, loss, loss0>>

NextPerceptron == PerSampleStep \/ BatchStep

SpecPerceptron == InitPerceptron /\ [][NextPerceptron]_vars

----------------------------------------------------------------------------
(* The gradient-descent cells.                                             *)

\* Single-layer NAND cells: the numpy loop, the PyTorch autodiff loop, the
\* PyTorch module, optimizer and class loops, and the Gluon loop.
SingleCells ==
    {"numpy_sgd", "torch_ad1", "torch_nn1", "torch_opt1", "torch_cls1", "gluon1"}

\* Two-layer XOR cells: PyTorch autodiff, module, optimizer and class loops,
\* and the MXNet autodiff loop.
MultiCells == {"torch_ad2", "torch_nn2", "torch_opt2", "torch_cls2", "mxnet_ad2"}

GDCells == SingleCells \cup MultiCells

\* Cells whose x has the constant-1 column and whose model has no bias of
\* its own in the first layer.
BiasColumnCells == {"numpy_sgd", "torch_ad1", "torch_ad2", "mxnet_ad2"}

\* Cells that write the loss as -sum(log(y*y_pred + (1-y)*(1-y_pred))).
LikelihoodCells == {"torch_ad1", "torch_ad2", "mxnet_ad2"}

\* Cells whose y_pred is the model's output before the sigmoid (the loss
\* function applies the sigmoid).
LogitCells ==
    {"torch_nn1", "torch_opt1", "torch_cls1", "gluon1",
     "torch_nn2", "torch_opt2", "torch_cls2"}

\* Cells of PyTorch, whose backward() adds to .grad.
TorchCells ==
    {"torch_ad1", "torch_nn1", "torch_opt1", "torch_cls1",
     "torch_ad2", "torch_nn2", "torch_opt2", "torch_cls2"}

\* Cells that clear the gradients after the update.
ZeroAfterCells == {"torch_ad1", "torch_ad2"}

\* Cells that clear the gradients between the loss and backward().
ZeroBeforeCells ==
    {"torch_nn1", "torch_opt1", "torch_cls1", "torch_nn2", "torch_opt2", "torch_cls2"}

\* range(...) of the cell's loop.
Iters(c) == IF c \in MultiCells THEN MultiIters ELSE SingleIters

\* Labels written in the cell.
GDLabels(c) == IF c \in MultiCells THEN XorY ELSE NandY

NumParams(c) == IF c \in MultiCells THEN 9 ELSE 3

Zeros(n) == [k \in 1..n |-> 0]

Sum4(f) == f[1] + f[2] + f[3] + f[4]

(* Forward passes.  A single-layer parameter vector is <<w1, w2, w3>>, w3  *)
(* being the weight of the bias column or the layer's bias.  A two-layer   *)
(* vector of the autodiff cells is w1 (3x2, row-major), w2 (2x1), b2; of   *)
(* the module cells it is parameters() in order: 0.weight (2x2, row-major),*)
(* 0.bias (2), 2.weight (1x2), 2.bias.                                     *)

\* x.mm(w) of a row with the bias column.
Logit3(xs, v, n) == Dot3(xs[n], v)

\* A variant of the linear layer without its bias.
Linear21NoBias(xs, v, n) == xs[n][1] * v[1] + xs[n][2] * v[2]

\* Linear(2, 1, bias=True) on a row.
Linear21(xs, v, n) == xs[n][1] * v[1] + xs[n][2] * v[2] + v[3]

\* x.mm(w1).sigmoid(): hidden unit j of row n, autodiff layout.
HiddenMat(xs, v, n, j) ==
    Sigmoid(xs[n][1] * v[j] + xs[n][2] * v[2 + j] + xs[n][3] * v[4 + j])

\* A variant of the module's hidden layer that reads 0.weight column by
\* column, as the autodiff cells read w1.
HiddenSeqColumns(xs, v, n, j) ==
    Sigmoid(xs[n][1] * v[j] + xs[n][2] * v[2 + j] + v[4 + j])

\* Linear(2, 2, bias=True) then Sigmoid: hidden unit j of row n.
HiddenSeq(xs, v, n, j) ==
    Sigmoid(xs[n][1] * v[2 * j - 1] + xs[n][2] * v[2 * j] + v[4 + j])

\* The hidden activations of the four rows.
Hidden(c, xs, v) ==
    [n \in 1..4 |-> [j \in 1..2 |->
        IF c \in BiasColumnCells THEN HiddenMat(xs, v, n, j)
        ELSE HiddenSeq(xs, v, n, j)]]

\* .mm(w2).add(b2), or Linear(2, 1, bias=True), on hidden activations hh.
OutLogit(v, hh) == Mul(hh[1], v[7]) + Mul(hh[2], v[8]) + v[9]

\* The value before the last sigmoid, on the four rows.
Logits(c, xs, v, hd) ==
    [n \in 1..4 |->
        IF c \in MultiCells THEN OutLogit(v, hd[n])
        ELSE IF c \in BiasColumnCells THEN Logit3(xs, v, n)
        ELSE Linear21(xs, v, n)]

\* What the loop assigns to y_pred.
ForwardPass(c, xs, v, hd) ==
    LET z == Logits(c, xs, v, hd)
    IN  [n \in 1..4 |-> IF c \in LogitCells THEN z[n] ELSE Sigmoid(z[n])]

\* The predictions printed after the loop: the sigmoid outputs.
Predictions(c, xs, v) ==
    LET z == Logits(c, xs, v, IF c \in MultiCells THEN Hidden(c, xs, v) ELSE None)
    IN  [n \in 1..4 |-> Sigmoid(z[n])]

(* Losses.                                                                 *)

\* A variant of ll with the two cases exchanged.
LikelihoodSwapped(lab, p) == lab * (Scale - p) + (1 - lab) * p

\* ll = y * y_pred + (1 - y) * (1 - y_pred) of one row.
Likelihood(lab, p) == lab * p + (1 - lab) * (Scale - p)

\* -ll.log().sum()
LikelihoodLoss(lab, yp) ==
    Sum4([n \in 1..4 |-> NegLog(Likelihood(lab[n], yp[n]))])

\* BCEWithLogitsLoss / SigmoidBinaryCrossEntropyLoss of one row:
\* max(z, 0) - z * y + log(1 + exp(-|z|)).
LogitLoss(lab, z) ==
    (IF z > 0 THEN z ELSE 0) - z * lab + NegLog(Sigmoid(Abs(z)))

\* The loss of the iteration, summed over the four rows.
Loss(c, lab, yp) ==
    IF c \in LogitCells THEN Sum4([n \in 1..4 |-> LogitLoss(lab[n], yp[n])])
    ELSE LikelihoodLoss(lab, yp)

(* Backward passes.                                                        *)

\* d loss / d logit of one row by the chain rule through -log(ll), ll and
\* the sigmoid: -(1/ll) * (2y - 1) * p * (1 - p), rounded once.
DeltaLikelihood(lab, p) ==
    (1 - 2 * lab) * RDiv(p * (Scale - p), Likelihood(lab, p))

\* d loss / d logit of one row of the sigmoid cross-entropy on logits.
DeltaLogit(lab, z) == Sigmoid(z) - lab * Scale

\* d loss / d logit on the four rows, from the forward pass's y_pred.
Deltas(c, lab, yp) ==
    [n \in 1..4 |->
        IF c \in LogitCells THEN DeltaLogit(lab[n], yp[n])
        ELSE DeltaLikelihood(lab[n], yp[n])]

\* Input k of row n as the first layer sees it; the bias sees 1.
InputOf(c, xs, n, k) ==
    IF c \in BiasColumnCells THEN xs[n][k]
    ELSE IF k = 3 THEN 1 ELSE xs[n][k]

\* Gradient of the summed loss of a single-layer cell.
SingleGradient(c, xs, d) ==
    [k \in 1..3 |-> Sum4([n \in 1..4 |-> d[n] * InputOf(c, xs, n, k)])]

\* d loss / d (input of hidden unit j) of row n: back through the output
\* layer's weight and the hidden sigmoid.
HiddenDelta(v, d, hd, n, j) ==
    Mul(Mul(d[n], v[6 + j]), Mul(hd[n][j], Scale - hd[n][j]))

\* The first-layer parameter at position m: its input k and hidden unit j.
FirstLayerInput(c, m) ==
    IF c \in BiasColumnCells THEN (m + 1) \div 2
    ELSE IF m > 4 THEN 3 ELSE ((m - 1) % 2) + 1

FirstLayerUnit(c, m) ==
    IF c \in BiasColumnCells THEN ((m - 1) % 2) + 1
    ELSE IF m > 4 THEN m - 4 ELSE (m + 1) \div 2

\* Gradient of the summed loss of a two-layer cell.
MultiGradient(c, xs, v, d, hd) ==
    [m \in 1..9 |->
        IF m = 9 THEN Sum4(d)
        ELSE IF m > 6 THEN Sum4([n \in 1..4 |-> Mul(d[n], hd[n][m - 6])])
        ELSE Sum4([n \in 1..4 |->
                InputOf(c, xs, n, FirstLayerInput(c, m))
                  * HiddenDelta(v, d, hd, n, FirstLayerUnit(c, m))])]

\* What loss.backward() computes for the parameters.
Gradient(c, xs, v, lab, yp, hd) ==
    IF c \in MultiCells THEN MultiGradient(c, xs, v, Deltas(c, lab, yp), hd)
    ELSE SingleGradient(c, xs, Deltas(c, lab, yp))

\* A variant of backward() in which every framework adds to the buffer
\* (MXNet's grad_req 'add').
AccumulateAdd(c, buf, g) == [k \in 1..Len(g) |-> buf[k] + g[k]]

\* backward() on a buffer: PyTorch adds to .grad, MXNet (grad_req 'write')
\* replaces it.
Accumulate(c, buf, g) ==
    IF c \in TorchCells THEN [k \in 1..Len(g) |-> buf[k] + g[k]] ELSE g

(* Updates.                                                                *)

\* A variant of the trainer's step that is given the number of examples.
FullBatchSize == Len(NandY)

\* trainer.step(batch_size=1)
GluonBatchSize == 1

\* p -= eta * p.grad, optimizer.step() of SGD(lr=0.5), and
\* trainer.step(batch_size): lr * grad / batch_size.
GradStep(c, g) ==
    IF c = "gluon1" THEN RDiv(Mul(Eta, g), GluonBatchSize) ELSE Mul(Eta, g)

\* w -= np.dot((y_pred - y), x)
NumpyStep(xs, lab, yp) ==
    [k \in 1..3 |-> Sum4([n \in 1..4 |-> (yp[n] - lab[n] * Scale) * xs[n][k]])]

\* A variant of the update that steps up the gradient.
Ascended(c, xs, v, lab, yp, buf) ==
    IF c = "numpy_sgd" THEN LET g == NumpyStep(xs, lab, yp)
                            IN  [k \in 1..3 |-> v[k] + g[k]]
    ELSE [k \in 1..Len(v) |-> v[k] + GradStep(c, buf[k])]

\* A variant of the two-layer update that steps the first layer and then
\* takes the output layer's gradient again, at the first layer's new values.
UpdatedInTurn(c, xs, v, lab, yp, buf) ==
    IF c \in MultiCells
      THEN LET v1 == [k \in 1..9 |->
                        IF k <= 6 THEN v[k] - GradStep(c, buf[k]) ELSE v[k]]
               h1 == Hidden(c, xs, v1)
               g1 == Gradient(c, xs, v1, lab, ForwardPass(c, xs, v1, h1), h1)
           IN  [k \in 1..9 |->
                   IF k <= 6 THEN v1[k] ELSE v[k] - GradStep(c, g1[k])]
    ELSE IF c = "numpy_sgd" THEN LET g == NumpyStep(xs, lab, yp)
                                 IN  [k \in 1..3 |-> v[k] - g[k]]
    ELSE [k \in 1..Len(v) |-> v[k] - GradStep(c, buf[k])]

\* The parameters after the iteration's update.
Updated(c, xs, v, lab, yp, buf) ==
    IF c = "numpy_sgd" THEN LET g == NumpyStep(xs, lab, yp)
                            IN  [k \in 1..3 |-> v[k] - g[k]]
    ELSE [k \in 1..Len(v) |-> v[k] - GradStep(c, buf[k])]

(* Initial parameters.  A draw of the cell's random initialiser is one of  *)
(* NumSeeds pseudo-random streams, each value put on a grid of halves.     *)

NumSeeds == 4

\* The stream's next state.
Lcg(s) == (75 * s + 74) % 65537

RECURSIVE Stream(_, _)
Stream(seed, n) == IF n = 0 THEN seed ELSE Lcg(Stream(seed, n - 1))

\* torch.randn / nd.random.normal(0, 1) / mx.init.Normal(sigma=1.): value n
\* of the draw, in -2.0 .. 2.0.
Randn(seed, n) == (((Stream(seed, n) \div 7) % 9) - 4) * (Scale \div 2)

\* torch.nn.Linear's default initialiser, uniform within 1/sqrt(fan_in) of
\* zero: value n of the draw, in -0.5 .. 0.5.
LinearInit(seed, n) == (((Stream(seed, n) \div 7) % 3) - 1) * (Scale \div 2)

\* A variant in which every gradient-descent cell draws all its parameters
\* from the standard normal distribution.
AllNormalParams(c, seed) == [k \in 1..NumParams(c) |-> Randn(seed, k)]

\* The parameters before the loop.
InitialParams(c, seed) ==
    IF c = "numpy_sgd" THEN ZeroW
    ELSE IF c = "gluon1" THEN <<Randn(seed, 1), Randn(seed, 2), 0>>
    ELSE IF c \in {"torch_ad1", "torch_ad2", "mxnet_ad2"}
      THEN [k \in 1..NumParams(c) |-> Randn(seed, k)]
    ELSE [k \in 1..NumParams(c) |-> LinearInit(seed, k)]

InitGD(cells) ==
    /\ cell \in cells
    /\ pc = "forward"
    /\ t = 0
    /\ i = 0
    /\ x = IF cell \in BiasColumnCells THEN X3 ELSE X2
    /\ y = GDLabels(cell)
    /\ \E seed \in 1..NumSeeds : w = InitialParams(cell, seed)
    /\ grad = IF cell = "numpy_sgd" THEN None ELSE Zeros(NumParams(cell))
    /\ y_pred = None
    /\ hid = None
    /\ loss = 0
    /\ loss0 = 0

(* The loop body, one action per statement group.                          *)

\* The position after the last statement of the body.
EndOfBody ==
    /\ t' = t + 1
    /\ pc' = IF t + 1 = Iters(cell) THEN "done" ELSE "forward"

\* y_pred = ...; loss = ...
Forward ==
    /\ cell \in GDCells
    /\ pc = "forward"
    /\ hid' = IF cell \in MultiCells THEN Hidden(cell, x, w) ELSE None
    /\ y_pred' = ForwardPass(cell, x, w, hid')
    /\ loss' = Loss(cell, y, y_pred')
    /\ loss0' = IF t = 0 THEN loss' ELSE loss0
    /\ pc' = IF cell = "numpy_sgd" THEN "update"
             ELSE IF cell \in ZeroBeforeCells THEN "zero_grad"
             ELSE "backward"
    /\ UNCHANGED <<cell, t, i, x, y, w, grad>>

\* model.zero_grad() / optimizer.zero_grad() / w.grad.zero_()
ZeroGrad ==
    /\ cell \in GDCells
    /\ pc = "zero_grad"
    /\ grad' = Zeros(Len(grad))
    /\ IF cell \in ZeroBeforeCells
         THEN pc' = "backward" /\ t' = t
         ELSE EndOfBody
    /\ UNCHANGED <<cell, i, x, y, w, y_pred, hid, loss, loss0>>

\* loss.backward()
Backward ==
    /\ cell \in GDCells
    /\ pc = "backward"
    /\ grad' = Accumulate(cell, grad, Gradient(cell, x, w, y, y_pred, hid))
    /\ pc' = "update"
    /\ UNCHANGED <<cell, t, i, x, y, w, y_pred, hid, loss, loss0>>

\* The update of the parameters.
Update ==
    /\ cell \in GDCells
    /\ pc = "update"
    /\ w' = Updated(cell, x, w, y, y_pred, grad)
    /\ IF cell \in ZeroAfterCells
         THEN pc' = "zero_grad" /\ t' = t
         ELSE EndOfBody
    /\ UNCHANGED <<cell, i, x, y, grad, y_pred, hid, loss, loss0>>

NextGD == Forward \/ ZeroGrad \/ Backward \/ Update

SpecSingle == InitGD(SingleCells) /\ [][NextGD]_vars

SpecMulti == InitGD(MultiCells) /\ [][NextGD]_vars

SpecGD == InitGD(GDCells) /\ [][NextGD]_vars

----------------------------------------------------------------------------
(* The fixed-weight cells: the loss of one input and its gradient, by      *)
(* autograd and by PyTorch.                                                *)

FixedCells == {"autograd_fixed", "torch_fixed"}

\* x = [1, 1, 1]
FixedX == <<1, 1, 1>>

\* w = [1.0, 1.0, -1.5]
FixedW == <<Scale, Scale, -((3 * Scale) \div 2)>>

\* Inputs tried besides the cell's own: weights on the halves within
\* FixedRange halves of zero, and every 0/1 vector x.
FixedRange == 3

FixedWeights == {v \in [1..3 -> -FixedRange..FixedRange] : TRUE}

FixedInputs == [1..3 -> 0..1]

\* A variant of the sigmoid with the sign of the exponent lost.
SigmoidOfNegated(u) == RDiv(Scale * Scale, Scale + Exp(u))

\* 1.0 / (1 + np.exp(-u))
AutogradSigmoid(u) == RDiv(Scale * Scale, Scale + Exp(-u))

\* The loss of the cell at x . w = u:
\* -np.log(1.0 / (1 + np.exp(-np.dot(x, w)))) or -torch.dot(x, w).sigmoid().log()
FixedLoss(c, u) ==
    IF c = "autograd_fixed" THEN NegLog(AutogradSigmoid(u))
    ELSE NegLog(Sigmoid(u))

\* A variant of the backward pass without the sigmoid's slope 1 - s.
DeltaWithoutSlope(c, u) == -Scale

\* d loss / d u in reverse mode.  autograd: back through -log, 1/q, 1 + e,
\* exp and the negation: -(1/s) * (-(s*s)) * e * (-1), with (1/s) * (s*s)
\* rounded once.  PyTorch: back through -log and the sigmoid:
\* -(1/s) * s * (1 - s), rounded once.
FixedDelta(c, u) ==
    IF c = "autograd_fixed"
      THEN LET s == AutogradSigmoid(u)
           IN  -Mul(RDiv(s * s, s), Exp(-u))
      ELSE LET s == Sigmoid(u)
           IN  -RDiv(s * (Scale - s), s)

\* grad_loss(w, x) / w.grad: d u / d w = x.
FixedGradient(c, xv, v) ==
    LET d == FixedDelta(c, Dot3(xv, v)) IN [k \in 1..3 |-> d * xv[k]]

InitFixed ==
    /\ cell \in FixedCells
    /\ pc = "forward"
    /\ t = 0
    /\ i = 0
    /\ \/ x = FixedX /\ w = FixedW
       \/ /\ x \in FixedInputs
          /\ \E v \in FixedWeights : w = [k \in 1..3 |-> v[k] * (Scale \div 2)]
    /\ y = None
    /\ grad = None
    /\ y_pred = None
    /\ hid = None
    /\ loss = 0
    /\ loss0 = 0

\* print(loss(w, x)) / loss = -torch.dot(x, w).sigmoid().log()
FixedForward ==
    /\ cell \in FixedCells
    /\ pc = "forward"
    /\ loss' = FixedLoss(cell, Dot3(x, w))
    /\ pc' = "backward"
    /\ UNCHANGED <<cell, t, i, x, y, w, grad, y_pred, hid, loss0>>

\* print(grad_loss(w, x)) / loss.backward()
FixedBackward ==
    /\ cell \in FixedCells
    /\ pc = "backward"
    /\ grad' = FixedGradient(cell, x, w)
    /\ pc' = "done"
    /\ UNCHANGED <<cell, t, i, x, y, w, y_pred, hid, loss, loss0>>

NextFixed == FixedForward \/ FixedBackward

SpecFixed == InitFixed /\ [][NextFixed]_vars

----------------------------------------------------------------------------
(* All cells.                                                              *)

Init == InitPerceptron \/ InitGD(GDCells) \/ InitFixed

Next == NextPerceptron \/ NextGD \/ NextFixed

Spec == Init /\ [][Next]_vars

----------------------------------------------------------------------------
(* Properties.                                                             *)

\* Cells whose data is marked "Training data for NAND".
NandCells == {"perceptron", "perceptron_batch"} \cup SingleCells

\* The predictions computed from the parameters after the loop:
\* np.heaviside(np.dot(x, w), 0) or the sigmoid outputs.
FinalPredictions ==
    IF cell \in PerceptronCells
      THEN [n \in 1..4 |-> StepPredictions(x, w)[n] * Scale]
      ELSE Predictions(cell, x, w)

\* C1: after the loop of every NAND training run the predictions from the
\* final parameters, rounded at 0.5, are (1,1,1,0).
NandRunsPredictNand ==
    (pc = "done" /\ cell \in NandCells) => RoundAll(FinalPredictions) = NandY

\* C2: after the 1000 iterations of every two-layer XOR run the predictions
\* from the final parameters, rounded at 0.5, are (0,1,1,0).
XorRunsPredictXor ==
    (pc = "done" /\ cell \in MultiCells) => RoundAll(FinalPredictions) = XorY

\* C3: the per-sample perceptron loop run on the XOR labels never reaches a
\* state whose four step predictions equal the labels, and never reaches
\* weights that the updates leave alone: from every state reached, some
\* sample's update changes w.
XorNeverSeparated ==
    cell = "perceptron_xor" =>
        /\ StepPredictions(x, w) # y
        /\ \E n \in 1..4 : SampleUpdate(x, w, n, y) # w

\* C3 witness: the loop on the XOR labels has run its 100 epochs and has
\* moved the weights.
XorLoopRan == cell = "perceptron_xor" /\ pc = "done" /\ w # ZeroW

(* The fixed-weight cells.  Values are compared to within Tolerance units  *)
(* of 1/Scale.                                                             *)

Tolerance == 1

\* The cell is at the input written in the notebook.
AtFixedExample == cell \in FixedCells /\ x = FixedX /\ w = FixedW

Decimal4(n) == (n * Scale) \div 10000

\* How far the autograd chain's gradient may lie from the closed form: its
\* last product multiplies a rounded factor by exp(-u).
ChainTolerance(c, u) ==
    IF c = "autograd_fixed" THEN Tolerance + Exp(-u) \div Scale ELSE Tolerance

\* C5: in the fixed-weight example x.w = 0.5, the loss is -log(sigmoid(0.5)),
\* about 0.4741, the gradient is -(1 - sigmoid(x.w)) * x, and its three
\* components are equal, each about -0.3775.  The closed form of the
\* gradient is also compared on every other input tried.
FixedExampleValues ==
    (cell \in FixedCells /\ pc = "done") =>
        LET u == Dot3(x, w)
        IN  /\ \A k \in 1..3 :
                 Abs(grad[k] + (Scale - Sigmoid(u)) * x[k])
                     <= ChainTolerance(cell, u) * x[k]
            /\ AtFixedExample =>
                 /\ u = Scale \div 2
                 /\ Abs(loss - NegLog(Sigmoid(Scale \div 2))) <= Tolerance
                 /\ Abs(loss - Decimal4(4741)) <= Tolerance
                 /\ grad[1] = grad[2] /\ grad[2] = grad[3]
                 /\ \A k \in 1..3 : Abs(grad[k] + Decimal4(3775)) <= Tolerance
                 /\ \A k \in 1..3 :
                      Abs(grad[k] + (Scale - Sigmoid(u)) * x[k]) <= Tolerance

\* C5 witness: a fixed-weight cell has computed a negative gradient at the
\* written input.
FixedExampleDone ==
    AtFixedExample /\ pc = "done" /\ loss > 0 /\ grad[1] < 0

(* The gradient-descent loops.                                             *)

\* C6: in every gradient-descent loop the summed cross-entropy loss of an
\* iteration is never above the loss of the first iteration; in particular
\* the loss of the last iteration is no greater than the first's.
LossNeverAboveFirst ==
    (cell \in GDCells /\ (t > 0 \/ pc # "forward")) => loss <= loss0

\* C6 witness: a gradient-descent loop has ended with a loss below its
\* first.
LossFellOverRun == cell \in GDCells /\ pc = "done" /\ loss < loss0

\* The y_pred of a perceptron update: the step function of x . w.
StepOf(n) == Heaviside(Dot3(x[n], w), 0)

\* The perceptron rule with eta = 0.5 as a step of the loop.
PerceptronRule ==
    cell \in PerceptronCells =>
        IF cell \in PerSampleCells
          THEN w' = [k \in 1..3 |->
                        w[k] + (Scale \div 2) * (y[i] - StepOf(i)) * x[i][k]]
          ELSE w' = [k \in 1..3 |->
                        w[k] + (Scale \div 2) * Sum4([n \in 1..4 |->
                                   (y[n] - StepOf(n)) * x[n][k]])]

\* C7: every update of either perceptron loop adds eta * (y - y_pred) * x to
\* w with eta = 0.5: per sample 0.5 * (y[i] - y_pred) * x[i], in the batched
\* loop 0.5 times the sum over the four samples of (y[i] - y_pred[i]) * x[i].
PerceptronUpdatesUseEta == [][PerceptronRule]_vars

\* dL/dp of the iteration's loss L.  In the numpy cell, which writes no
\* loss, L is the summed cross-entropy of y_pred = sigmoid(x . w), whose
\* gradient is (y_pred - y) . x.
LossGradient ==
    IF cell = "numpy_sgd"
      THEN [k \in 1..3 |->
               Sum4([n \in 1..4 |-> (y_pred[n] - y[n] * Scale) * x[n][k]])]
      ELSE Gradient(cell, x, w, y, y_pred, hid)

\* The descent step with learning rate 0.5 as a step of the loop.
DescentStep ==
    (cell \in GDCells /\ pc = "update") =>
        w' = [k \in 1..Len(w) |-> w[k] - Mul(Scale \div 2, LossGradient[k])]

\* C8: the update of every gradient-descent loop replaces every parameter p
\* by p - 0.5 * dL/dp, L being the loss of that iteration.
UpdatesStepByEta == [][DescentStep]_vars

\* The loops that keep gradient buffers.
BufferCells == GDCells \ {"numpy_sgd"}

\* C9 as written: the gradient buffers are zero whenever a backward pass
\* starts, having been cleared since the backward pass before, and the
\* update reads the gradient of its own iteration's loss alone.
BuffersZeroedBetweenBackwards ==
    cell \in BufferCells =>
        /\ pc = "backward" => grad = Zeros(Len(grad))
        /\ pc = "update" => grad = Gradient(cell, x, w, y, y_pred, hid)

\* C9 amended: the update of iteration t reads the gradient of iteration
\* t's loss alone; the PyTorch loops get this by clearing the buffers
\* between two backward passes, the MXNet and Gluon loops by a backward pass
\* that overwrites the buffers, which are never cleared.
UpdateReadsOwnGradient ==
    cell \in BufferCells =>
        /\ (pc = "backward" /\ cell \in TorchCells) => grad = Zeros(Len(grad))
        /\ pc = "update" => grad = Gradient(cell, x, w, y, y_pred, hid)

\* C9 witness: an MXNet or Gluon loop is about to update in a later
\* iteration, a gradient of the earlier iteration having been in the buffer
\* when backward ran.
LaterUpdateAfterOverwrite ==
    /\ cell \in BufferCells \ TorchCells
    /\ pc = "update"
    /\ t > 0
    /\ grad # Zeros(Len(grad))

(* Termination.                                                            *)

\* The training loops.
LoopCells == PerceptronCells \cup GDCells

\* The statements of a cell's loop body, at which one of its actions is
\* enabled.
LoopPositions(c) ==
    IF c \in PerceptronCells THEN {"loop"}
    ELSE IF c = "numpy_sgd" THEN {"forward", "update"}
    ELSE IF c \in ZeroAfterCells \cup ZeroBeforeCells
      THEN {"forward", "zero_grad", "backward", "update"}
    ELSE {"forward", "backward", "update"}

\* C10: every training loop ends after exactly 100 iterations (single
\* layer; in the per-sample perceptron 100 epochs of 4 steps) or 1000
\* iterations (two layers), and never before: until then the loop is at a
\* statement of its body, whatever the predictions are.
LoopsRunFixedCount ==
    cell \in LoopCells =>
        LET n == IF cell \in MultiCells THEN 1000 ELSE 100
        IN  /\ t <= n
            /\ pc = "done" <=> t = n
            /\ (cell \in PerSampleCells /\ pc = "done") => i = 1
            /\ cell \in PerSampleCells => i \in 1..4
            /\ pc # "done" => pc \in LoopPositions(cell)
            /\ (cell \in PerceptronCells /\ pc # "done") => ENABLED NextPerceptron

\* C10 witness: a perceptron loop whose step predictions already equal the
\* labels is still running.
RunningThoughSeparated ==
    /\ cell \in PerceptronCells
    /\ pc = "loop"
    /\ t > 0
    /\ StepPredictions(x, w) = y

(* The training data.                                                      *)

\* The rows of a truth table: (0,0), (0,1), (1,0), (1,1), each followed by
\* the constant 1 when the input has three components.
TruthTableRows(dim) ==
    [n \in 1..4 |->
        IF dim = 3 THEN <<(n - 1) \div 2, (n - 1) % 2, 1>>
        ELSE <<(n - 1) \div 2, (n - 1) % 2>>]

\* Cells whose data is marked "Training data for XOR".
XorCells == MultiCells

\* C11: in every training cell x is the truth table's four rows in order
\* (with a constant third component 1 when it has three), y is (1,1,1,0) in
\* every cell marked as NAND data and (0,1,1,0) in every cell marked as XOR
\* data, and the loop leaves x and y as written.
DataIsTruthTable ==
    cell \in NandCells \cup XorCells =>
        /\ x = TruthTableRows(Len(x[1]))
        /\ Len(x[1]) \in {2, 3}
        /\ cell \in NandCells => y = <<1, 1, 1, 0>>
        /\ cell \in XorCells => y = <<0, 1, 1, 0>>

(* Initial parameters.                                                     *)

\* The cell has not yet updated its parameters.
BeforeFirstUpdate ==
    /\ t = 0
    /\ \/ pc \in {"forward", "backward", "update"}
       \/ pc = "zero_grad" /\ cell \in ZeroBeforeCells
       \/ pc = "loop" /\ i <= 1

\* Some draw of the standard normal initialiser gives positions ks of w.
NormalDraw(ks) ==
    \E seed \in 1..NumSeeds : \A k \in ks : w[k] = Randn(seed, k)

\* C12 as written: every gradient-descent cell starts from parameters drawn
\* from the standard normal distribution, and the perceptron cells, and only
\* they, start from the zero vector.
StartsFromNormalDraw ==
    BeforeFirstUpdate =>
        /\ cell \in GDCells => NormalDraw(1..Len(w)) /\ w # Zeros(Len(w))
        /\ cell \in PerceptronCells => w = ZeroW

\* Cells that build their model from torch.nn.Linear layers.
LinearModuleCells == ZeroBeforeCells

\* C12 amended: the autodiff cells (PyTorch and MXNet) start from standard
\* normal draws of every parameter; the Gluon cell draws its two weights
\* from Normal(sigma=1) and starts its bias at zero; the PyTorch module,
\* optimizer and class cells start from torch.nn.Linear's default, every
\* parameter within 1/sqrt(2) of zero; the numpy gradient-descent cell and
\* the perceptron cells start from the zero vector.
StartsAsWritten ==
    BeforeFirstUpdate =>
        /\ cell \in {"torch_ad1", "torch_ad2", "mxnet_ad2"} =>
               NormalDraw(1..Len(w))
        /\ cell = "gluon1" => NormalDraw(1..2) /\ w[3] = 0
        /\ cell \in LinearModuleCells =>
               \A k \in 1..Len(w) : 2 * w[k] * w[k] <= Scale * Scale
        /\ cell \in PerceptronCells \cup {"numpy_sgd"} => w = ZeroW

\* C12 witness: the numpy gradient-descent cell has made its first forward
\* pass from the zero vector.
NumpyStartsAtZero ==
    cell = "numpy_sgd" /\ t = 0 /\ pc = "update" /\ w = ZeroW

(* The perceptron rule.                                                    *)

\* C13: the step function has g(0) = 0: the prediction for a row is 1
\* exactly when x . w is strictly positive and 0 otherwise, so at the zero
\* weight vector all four predictions are 0, and from it a sample's update
\* (or the batch's) changes w only if the sample's label (some label) is 1.
StepIsZeroAtZero ==
    cell \in PerceptronCells =>
        /\ \A n \in 1..4 :
              /\ StepPredictions(x, w)[n] \in {0, 1}
              /\ StepPredictions(x, w)[n] = 1 <=> Dot3(x[n], w) > 0
        /\ w = ZeroW =>
              /\ StepPredictions(x, w) = <<0, 0, 0, 0>>
              /\ \A n \in 1..4 : SampleUpdate(x, w, n, y) # w => y[n] = 1
              /\ BatchUpdate(x, w, y) # w => \E n \in 1..4 : y[n] = 1

\* C13 witness: a perceptron loop has moved the weights to a vector with
\* x . w = 0 on some row, which is predicted 0.
ZeroDotPredictedZero ==
    /\ cell \in PerceptronCells
    /\ w # ZeroW
    /\ \E n \in 1..4 : Dot3(x[n], w) = 0 /\ StepPredictions(x, w)[n] = 0

(* Equivalent forms of the models.                                         *)

\* C14: for weights (w1, w2, w3) the 3-column form (x1, x2, 1) . (w1, w2, w3)
\* equals the 2-column form w1*x1 + w2*x2 + w3 of a linear layer with
\* weights (w1, w2) and bias w3 on every row, so the two kinds of
\* single-layer model give the same sigmoid and the same step prediction on
\* all four rows.
BiasFoldingAgrees ==
    cell \in SingleCells =>
        /\ \A n \in 1..4 :
              /\ Logit3(X3, w, n) = Linear21(X2, w, n)
              /\ Heaviside(Logit3(X3, w, n), 0) = Heaviside(Linear21(X2, w, n), 0)
        /\ Logits("torch_ad1", X3, w, None) = Logits("torch_nn1", X2, w, None)
        /\ Predictions("torch_ad1", X3, w) = Predictions("torch_nn1", X2, w)
        /\ \A c \in {"torch_ad1", "torch_nn1"} :
              Predictions(c, IF c \in BiasColumnCells THEN X3 ELSE X2, w)
                  = Predictions(cell, x, w)

\* C14 witness: a single-layer cell has made a forward pass with a bias
\* weight and an input weight that are not zero.
ForwardWithBias ==
    /\ cell \in SingleCells
    /\ pc # "forward"
    /\ w[3] # 0
    /\ w[1] # 0

\* The parameters of a two-layer cell in the other kind's order: w1 (3x2,
\* row-major, its third row the hidden biases) holds the transpose of
\* 0.weight (2x2, row-major); the biases and the output layer keep their
\* places.  The map is its own inverse.
OtherLayout(v) == <<v[1], v[3], v[2], v[4], v[5], v[6], v[7], v[8], v[9]>>

\* The parameters v of cell c as cell d holds them.
AsHeldBy(d, c, v) ==
    IF (c \in BiasColumnCells) = (d \in BiasColumnCells) THEN v
    ELSE OtherLayout(v)

\* The data of a cell: three columns or two.
DataOf(c) == IF c \in BiasColumnCells THEN X3 ELSE X2

\* The forward pass of the iteration has just run: hid and y_pred are those
\* of the current parameters.
AfterForward ==
    pc = IF cell \in ZeroBeforeCells THEN "zero_grad" ELSE "backward"

\* The sigmoid outputs of the forward pass just run.
OutputsOfPass ==
    IF cell \in LogitCells THEN [n \in 1..4 |-> Sigmoid(y_pred[n])] ELSE y_pred

\* C15: every two-layer cell computes sigmoid(sigmoid(x.w1).w2 + b2) with
\* two hidden units, one output and an output bias, and the autodiff form
\* (w1 3x2 on the 3-column input, w2 2x1, b2) and the module form
\* (Linear(2,2), Sigmoid, Linear(2,1), sigmoid of the output) give the same
\* hidden activations and the same outputs for corresponding parameters:
\* what a cell's forward pass computed is what each form computes from the
\* cell's parameters put in that form's order.
TwoLayerFormsAgree ==
    (cell \in MultiCells /\ AfterForward) =>
        /\ Len(w) = 9
        /\ \A n \in 1..4 : Len(hid[n]) = 2
        /\ \A c \in {"mxnet_ad2", "torch_cls2"} :
              /\ Hidden(c, DataOf(c), AsHeldBy(c, cell, w)) = hid
              /\ [n \in 1..4 |->
                     Sigmoid(Logits(c, DataOf(c), AsHeldBy(c, cell, w), hid)[n])]
                   = OutputsOfPass
        /\ \A n \in 1..4 :
              OutputsOfPass[n]
                  = Sigmoid(Mul(hid[n][1], w[7]) + Mul(hid[n][2], w[8]) + w[9])

\* C15 witness: a two-layer cell has made a forward pass from parameters
\* whose first-layer matrix is not symmetric, so the two orders differ.
ForwardFromAsymmetric ==
    /\ cell \in MultiCells
    /\ pc # "forward"
    /\ hid # None
    /\ w[2] # w[3]

(* Recorded results of the perceptron cells.                               *)

\* C16: the per-sample perceptron loop, from w = (0,0,0) with learning rate
\* 0.5 on the cell's data and labels, ends after 100 epochs with w exactly
\* (1.0, 0.5, -1.0), and the step predictions from that w equal the cell's
\* labels on all four rows.
PerSampleEndsAsRecorded ==
    (cell = "perceptron" /\ pc = "done") =>
        /\ t = 100
        /\ w = <<Scale, Scale \div 2, -Scale>>
        /\ StepPredictions(x, w) = y

\* C16 witness: the per-sample loop on the cell's labels has ended with a
\* negative bias weight.
PerSampleEnded == cell = "perceptron" /\ pc = "done" /\ i = 1 /\ w[3] < 0

\* C17: the batched perceptron loop, from w = (0,0,0) on the labels
\* (1,1,1,0), ends after 100 iterations with w exactly (-1, -1, 2), and the
\* step predictions from that w are (1,1,1,0).
BatchEndsAsRecorded ==
    (cell = "perceptron_batch" /\ pc = "done") =>
        /\ t = 100
        /\ y = <<1, 1, 1, 0>>
        /\ w = <<-Scale, -Scale, 2 * Scale>>
        /\ StepPredictions(x, w) = <<1, 1, 1, 0>>

\* C17 witness: the batched loop has ended with a positive bias weight.
BatchEnded == cell = "perceptron_batch" /\ pc = "done" /\ w[3] > 0

\* A step of a perceptron loop changes w only on a mistake.
MistakeDrivenStep ==
    cell \in PerceptronCells =>
        /\ cell \in PerSampleCells => ((w' # w) <=> (StepOf(i) # y[i]))
        /\ cell = "perceptron_batch" => (w' # w => StepPredictions(x, w) # y)
        /\ StepPredictions(x, w) = y =>
              /\ w' = w
              /\ StepPredictions(x, w') = y

\* C18: a per-sample step changes w if and only if the prediction for its
\* sample differs from the label, a batched step changes w only if some
\* prediction differs, and from a state whose four predictions equal the
\* labels every step leaves w, and so the predictions, as they are.
UpdatesAreMistakeDriven == [][MistakeDrivenStep]_vars

\* C18 witness: late in a per-sample loop the four predictions equal the
\* labels and the loop is in the middle of an epoch.
SeparatedMidEpoch ==
    /\ cell \in PerSampleCells
    /\ pc = "loop"
    /\ i = 3
    /\ t > 50
    /\ StepPredictions(x, w) = y

(* The loss of the autodiff cells.                                         *)

\* The binary cross-entropy of one row: -(y*log(p) + (1-y)*log(1-p)).
CrossEntropyRow(lab, p) == lab * NegLog(p) + (1 - lab) * NegLog(Scale - p)

\* C19: the loss written in the autodiff cells,
\* -sum(log(y*y_pred + (1-y)*(1-y_pred))), is the binary cross-entropy
\* -sum(y*log(y_pred) + (1-y)*log(1-y_pred)): for either label the row's
\* term is -log(y_pred) when y = 1 and -log(1 - y_pred) when y = 0, on every
\* y_pred a forward pass computes, and the loss of the pass is the sum of
\* the rows' cross-entropies.
LossIsCrossEntropy ==
    (cell \in LikelihoodCells /\ AfterForward) =>
        /\ \A n \in 1..4 :
              /\ \A b \in {0, 1} :
                    NegLog(Likelihood(b, y_pred[n])) = CrossEntropyRow(b, y_pred[n])
              /\ NegLog(Likelihood(1, y_pred[n])) = NegLog(y_pred[n])
              /\ NegLog(Likelihood(0, y_pred[n])) = NegLog(Scale - y_pred[n])
        /\ loss = LikelihoodLoss(y, y_pred)
        /\ loss = Sum4([n \in 1..4 |-> CrossEntropyRow(y[n], y_pred[n])])

\* C19 witness: an autodiff cell has computed the loss of a forward pass
\* whose outputs are strictly between 0 and 1.
AutodiffLossComputed ==
    /\ cell \in LikelihoodCells
    /\ AfterForward
    /\ loss > 0
    /\ \A n \in 1..4 : y_pred[n] > 0 /\ y_pred[n] < Scale

(* The framework loops of the single-layer model.                          *)

\* The Gluon loop, the PyTorch optimizer loop and the PyTorch module loop
\* with the manual update.
FrameworkCells == {"gluon1", "torch_opt1", "torch_nn1"}

\* The parameters after one whole iteration of cell c from parameters v on
\* the two-column NAND data, the gradient buffer being zero or overwritten.
OneIteration(c, v) ==
    Updated(c, X2, v, NandY, ForwardPass(c, X2, v, None),
            Accumulate(c, Zeros(3),
                Gradient(c, X2, v, NandY, ForwardPass(c, X2, v, None), None)))

\* The update of a framework loop is the update each of the three loops
\* makes from the same parameters: 0.5 times the gradient of the summed
\* loss, not divided by the number of examples.
SameStepInFrameworks ==
    (cell \in FrameworkCells /\ pc = "update") =>
        /\ loss = Sum4([n \in 1..4 |-> LogitLoss(y[n], y_pred[n])])
        /\ \A k \in 1..3 : w'[k] = w[k] - Mul(Scale \div 2, grad[k])
        /\ \A c \in FrameworkCells : w' = OneIteration(c, w)

\* C20: the Gluon loop with trainer.step(batch_size=1), the PyTorch
\* optimizer loop and the PyTorch module loop take the same step from the
\* same parameters, the loss being summed over the four examples and the
\* gradient not divided by 4, so from equal parameters they hold equal
\* parameters after every iteration.
FrameworkLoopsStepAlike == [][SameStepInFrameworks]_vars

\* C20 witness: the Gluon loop has updated its parameters and is in a later
\* iteration.
GluonUpdated == cell = "gluon1" /\ t > 0 /\ pc = "update" /\ w[3] # 0

(* The order of an iteration of the two-layer loops.                       *)

\* A step of a two-layer loop: the forward pass, then (after the clearing
\* of the buffers where it comes first) the backward pass, then the update;
\* only the update changes parameters; the backward pass and the update
\* work on the forward pass of the current parameters, and the update steps
\* every parameter by the gradient of that one backward pass, taken at the
\* parameters held before the update.
OrderedSimultaneousStep ==
    cell \in MultiCells =>
        /\ pc = "forward" =>
              /\ pc' = IF cell \in ZeroBeforeCells THEN "zero_grad" ELSE "backward"
              /\ w' = w
        /\ pc = "zero_grad" =>
              /\ w' = w
              /\ cell \in ZeroBeforeCells => pc' = "backward"
              /\ cell \in ZeroAfterCells => pc' \in {"forward", "done"}
        /\ pc = "backward" =>
              /\ pc' = "update"
              /\ w' = w
              /\ y_pred' = y_pred /\ hid' = hid
        /\ pc = "update" =>
              /\ hid = Hidden(cell, x, w)
              /\ y_pred = ForwardPass(cell, x, w, hid)
              /\ grad = Gradient(cell, x, w, y, y_pred, hid)
              /\ w' = [k \in 1..9 |-> w[k] - Mul(Scale \div 2, grad[k])]
              /\ pc' \in {"forward", "done", "zero_grad"}

\* C21: every iteration of a two-layer loop is forward pass, backward pass,
\* update, in that order; no parameter changes between the forward and the
\* backward pass; and the update is simultaneous: all nine parameters are
\* stepped by gradients of the one backward pass, taken at the parameter
\* values held before any of the iteration's updates.
UpdatesAreSimultaneous == [][OrderedSimultaneousStep]_vars

\* C21 witness: a two-layer loop is about to update, in a later iteration,
\* with gradients for the first layer and for the output bias.
TwoLayerUpdateDue ==
    /\ cell \in MultiCells
    /\ pc = "update"
    /\ t > 1
    /\ grad[1] # 0
    /\ grad[9] # 0

(* Symmetry of the full-batch loops that start from zero.                  *)

\* The full-batch loops that start from the zero vector on the NAND labels.
ZeroStartBatchCells == {"perceptron_batch", "numpy_sgd"}

\* Exchanging the two input columns of the data maps the set of
\* (row, label) pairs to itself.
DataIsSymmetric ==
    \A n \in 1..4 : \E m \in 1..4 :
        /\ x[m] = <<x[n][2], x[n][1], x[n][3]>>
        /\ y[m] = y[n]

\* C22: in the batched perceptron loop and the numpy gradient-descent loop,
\* which start from zero on the NAND labels, the data is symmetric in the
\* two input columns and w[0] = w[1] at all times; the per-sample
\* perceptron loop does not keep them equal: it ends with w[0] # w[1].
ZeroStartLoopsKeepSymmetry ==
    /\ cell \in ZeroStartBatchCells => DataIsSymmetric /\ w[1] = w[2]
    /\ (cell = "perceptron" /\ pc = "done") => w[1] # w[2]

\* C22 witness: the numpy loop has ended with equal, nonzero weights on the
\* two inputs.
NumpyEndedSymmetric ==
    cell = "numpy_sgd" /\ pc = "done" /\ w[1] = w[2] /\ w[1] # 0

(* Step sizes of the batched perceptron.                                   *)

\* The weights of the batched loop run with step size e, given the weights
\* v of the loop as written (step size 1): v scaled by e.
ScaledBy(e, v) == [k \in 1..3 |-> (v[k] \div Scale) * e]

\* One iteration of the batched loop with step size e from weights v:
\* w += e * np.dot((y - y_pred), x).
BatchStepWith(e, v) ==
    [k \in 1..3 |-> v[k] + e * BatchDelta(x, v, y)[k]]

\* A step of the batched loop as written is, on the weights scaled by e, a
\* step of the loop with step size e, and both loops predict alike.
StepSizeFreeStep ==
    cell = "perceptron_batch" =>
        /\ ScaledBy(Scale, w) = w
        /\ w = [k \in 1..3 |-> 2 * ScaledBy(Scale \div 2, w)[k]]
        /\ \A e \in {Scale \div 2, Scale, 2 * Scale} :
              /\ StepPredictions(x, ScaledBy(e, w)) = StepPredictions(x, w)
              /\ ScaledBy(e, w') = BatchStepWith(e, ScaledBy(e, w))
              /\ StepPredictions(x, ScaledBy(e, w')) = StepPredictions(x, w')

\* C23: the batched perceptron loop from w = (0,0,0) run with step size 0.5
\* (and with any other positive step size tried) makes the same predictions
\* at every iteration as the loop as written, whose step size is 1
\* (w += (y - y_pred) . x), and the weights of the written loop are exactly
\* 2 times the weights of the loop with step size 0.5 at every iteration.
PredictionsFreeOfStepSize == [][StepSizeFreeStep]_vars

\* C23 witness: the batched loop has moved its weights and does not yet
\* predict its labels.
BatchLoopLearning ==
    /\ cell = "perceptron_batch"
    /\ t > 1
    /\ w # ZeroW
    /\ StepPredictions(x, w) # y

(* The weights the perceptron loops pass through.                          *)

\* The perceptron loops of the notebook's cells.
WrittenPerceptronCells == {"perceptron", "perceptron_batch"}

\* No update of the cell's loop changes w.
WeightsAtRest ==
    IF cell \in PerSampleCells
      THEN \A n \in 1..4 : SampleUpdate(x, w, n, y) = w
      ELSE BatchUpdate(x, w, y) = w

\* C24: in the per-sample loop every component of w is at all times an
\* integer multiple of 0.5 of absolute value at most 1; in the batched loop
\* every component is at all times an integer between -1 and 3; and in both
\* loops w has stopped changing once 5 passes over the data are done: from
\* then to the end of the 100 passes no update changes it.
PerceptronWeightsSettle ==
    /\ cell = "perceptron" =>
          \A k \in 1..3 : w[k] % (Scale \div 2) = 0 /\ Abs(w[k]) <= Scale
    /\ cell = "perceptron_batch" =>
          \A k \in 1..3 :
              w[k] % Scale = 0 /\ w[k] >= -Scale /\ w[k] <= 3 * Scale
    /\ (cell \in WrittenPerceptronCells /\ t >= 5) =>
          /\ WeightsAtRest
          /\ StepPredictions(x, w) = y

\* C24 witness: a perceptron loop of the notebook has just finished its
\* fifth pass and its weights, not zero, are at rest.
SettledAfterFivePasses ==
    /\ cell \in WrittenPerceptronCells
    /\ pc = "loop"
    /\ t = 5
    /\ w # ZeroW
    /\ WeightsAtRest

====
